---------------------------- MODULE Spec2Model ----------------------------
(***************************************************************************)
(* A model of skybox.py: exr_to_cubemap converts an equirectangular HDR    *)
(* panorama into six cubemap faces.                                        *)
(*                                                                         *)
(* Numbers.  Channel values of the panorama are fixed-point: the integer n *)
(* stands for the float n / Unit.  The tonemapper is computed exactly on   *)
(* these rationals (with multi-digit naturals for the 11th powers).        *)
(* Directions are kept as integer vectors scaled by face_size, each        *)
(* component in sign/magnitude form so that -0.0 and +0.0 stay distinct,   *)
(* as they are for arctan2.  The angles are resolved to sectors of pi/6,   *)
(* which is exact for integer vectors; the panorama sizes are therefore    *)
(* those with (width - 1) dividing 12 and (height - 1) dividing 6.         *)
(***************************************************************************)
EXTENDS Integers, Sequences, FiniteSets, TLC

\* ------------------------------------------------------------------ bounds
Unit == 16        \* fixed-point resolution of a channel value: n stands for n / Unit
MaxWidth == 12    \* largest panorama width
MaxHeight == 6   \* largest panorama height
MaxSize == 3      \* largest explicit size argument

\* --------------------------------------------------------- program numbers
ExposureNum == 3  \* hdr * 1.5 = hdr * 3 / 2
ExposureDen == 2
GammaNum == 5     \* 1 / 2.2 = 5 / 11
GammaDen == 11
Scale == 255      \* hdr * 255
Uint8Mod == 256   \* astype(np.uint8)
SectorsU == 12    \* 2 pi in sectors of pi / 6  (arctan2 / (2 pi))
SectorsV == 6     \* pi in sectors of pi / 6    (arcsin / pi)

\* ---------------------------------------------------------------- options
None == <<>>
Some(x) == <<x>>
Get(o) == o[1]

\* ------------------------------------------- multi-digit naturals (radix 1000)
\* little-endian digit sequences; <<>> is zero
RECURSIVE BigMulSmall(_, _, _)
BigMulSmall(a, s, carry) ==
    IF a = <<>>
    THEN IF carry = 0 THEN <<>>
         ELSE <<carry % 1000>> \o BigMulSmall(<<>>, s, carry \div 1000)
    ELSE LET t == a[1] * s + carry
         IN  <<t % 1000>> \o BigMulSmall(Tail(a), s, t \div 1000)

RECURSIVE BigTimesPow(_, _, _)
\* a * s^e, for a small natural s
BigTimesPow(a, s, e) ==
    IF s = 0 /\ e > 0 THEN <<>>
    ELSE IF e = 0 THEN a
    ELSE BigTimesPow(BigMulSmall(a, s, 0), s, e - 1)

RECURSIVE BigLeqFrom(_, _, _)
\* a <= b for digit sequences of equal length, comparing from digit n down
BigLeqFrom(a, b, n) ==
    IF n = 0 THEN TRUE
    ELSE IF a[n] # b[n] THEN a[n] < b[n]
    ELSE BigLeqFrom(a, b, n - 1)

BigLeq(a, b) ==
    IF Len(a) # Len(b) THEN Len(a) < Len(b) ELSE BigLeqFrom(a, b, Len(a))

\* ---------------------------------------------------------------- tonemapper
\* np.clip(hdr * 1.5, 0, 1): the clamped value is ClipNum(n) / ClipDen
ClipDen == ExposureDen * Unit

ClipNoUpper(n) ==
    IF ExposureNum * n < 0 THEN 0 ELSE ExposureNum * n

ClipNum(n) ==
    IF ExposureNum * n < 0 THEN 0
    ELSE IF ExposureNum * n > ClipDen THEN ClipDen
    ELSE ExposureNum * n

\* k <= 255 * (c / ClipDen) ^ (5 / 11)  iff  k^11 * ClipDen^5 <= c^5 * 255^11
GammaAtLeast(c, k) ==
    BigLeq(BigTimesPow(BigTimesPow(<<1>>, k, GammaDen), ClipDen, GammaNum),
           BigTimesPow(BigTimesPow(<<1>>, c, GammaNum), Scale, GammaDen))

RECURSIVE GammaSearch(_, _, _)
\* the largest k in lo..hi with GammaAtLeast(c, k), given GammaAtLeast(c, lo)
GammaSearch(c, lo, hi) ==
    IF lo = hi THEN lo
    ELSE LET mid == (lo + hi + 1) \div 2
         IN  IF GammaAtLeast(c, mid) THEN GammaSearch(c, mid, hi)
             ELSE GammaSearch(c, lo, mid - 1)

\* trunc(np.power(c, 1/2.2) * 255) for the clamped value c / ClipDen
GammaScaled(c) == GammaSearch(c, 0, 4 * Scale)

\* every clamped numerator the model can meet (also without the upper clamp)
MaxChannel == 3 * Unit
GammaTable == [c \in 0..(ExposureNum * MaxChannel) |-> GammaScaled(c)]

\* one channel: float n / Unit to the 8-bit value
TonemapChannel(n) == GammaTable[ClipNum(n)] % Uint8Mod

TonemapPixel(p) == <<TonemapChannel(p[1]), TonemapChannel(p[2]), TonemapChannel(p[3])>>

\* ------------------------------------------------------------ directions
\* a float component in sign/magnitude form: s in {1, -1}, value s * m / face_size
Plus(m) == [s |-> 1, m |-> m]
Minus(c) == [s |-> 0 - c.s, m |-> c.m]

FaceNames == <<"right", "left", "top", "bottom", "front", "back">>

FaceCoordCorner(k, fs) ==
    IF 2 * k - fs < 0 THEN [s |-> -1, m |-> fs - 2 * k] ELSE Plus(2 * k - fs)

\* (k + 0.5) / face_size * 2 - 1, times face_size; an exact zero is +0.0
FaceCoord(k, fs) ==
    IF 2 * k + 1 - fs < 0 THEN [s |-> -1, m |-> fs - 2 * k - 1]
    ELSE Plus(2 * k + 1 - fs)

\* the argument list of sample_equirect for pixel (i, j) of each face
FaceDir(name, i, j, fs) ==
    LET u == FaceCoord(j, fs)
        v == FaceCoord(i, fs)
        one == Plus(fs)
    IN  CASE name = "right"  -> <<one, Minus(v), Minus(u)>>
          [] name = "left"   -> <<Minus(one), Minus(v), u>>
          [] name = "top"    -> <<u, one, v>>
          [] name = "bottom" -> <<u, Minus(one), Minus(v)>>
          [] name = "front"  -> <<u, Minus(v), one>>
          [] name = "back"   -> <<Minus(u), Minus(v), Minus(one)>>

\* np.linalg.norm(vec) squared
Norm2(vec) == vec[1].m * vec[1].m + vec[2].m * vec[2].m + vec[3].m * vec[3].m

\* floor(arctan(mx / mz) / (pi / 6)) for mx > 0: 0, 1, 2, or 3 when mz = 0
AtanSector(mx, mz) ==
    IF mz = 0 THEN 3
    ELSE IF mx * mx >= 3 * mz * mz THEN 2
    ELSE IF 3 * mx * mx >= mz * mz THEN 1
    ELSE 0

\* floor(12 * u) for u = 0.5 + arctan2(x, z) / (2 pi), with signed zeros
TexU(x, z) ==
    IF x.m = 0
    THEN IF z.s = 1 THEN 6 ELSE IF x.s = 1 THEN 12 ELSE 0
    ELSE LET a == AtanSector(x.m, z.m)
         IN  IF z.m = 0 THEN (IF x.s = 1 THEN 9 ELSE 3)
             ELSE IF x.s = 1 /\ z.s = 1 THEN 6 + a
             ELSE IF x.s = 1 THEN 11 - a
             ELSE IF z.s = 1 THEN 5 - a
             ELSE a

\* y <= sin((3 - k) pi / 6) for y = yc / sqrt(n2), by signed squares
SinAtMost(yc, n2, k) ==
    LET q == CASE k \in {0, 6} -> 4 [] k \in {1, 5} -> 3 [] k \in {2, 4} -> 1 [] k = 3 -> 0
        sg == IF k < 3 THEN 1 ELSE -1
    IN  4 * yc.s * yc.m * yc.m <= sg * q * n2

\* floor(6 * v) for v = 0.5 - arcsin(y) / pi
TexV(yc, n2) ==
    CHOOSE k \in 0..SectorsV :
        /\ SinAtMost(yc, n2, k)
        /\ k < SectorsV => ~SinAtMost(yc, n2, k + 1)

PxIndexFullWidth(t, w) ==
    IF SectorsU % w = 0 THEN t \div (SectorsU \div w) ELSE (t * w) \div SectorsU

\* int(u * (w - 1)) from t = floor(12 * u), for (w - 1) dividing 12
PxIndex(t, w) ==
    IF w = 1 THEN 0 ELSE t \div (SectorsU \div (w - 1))

\* int(v * (h - 1)) from t = floor(6 * v), for (h - 1) dividing 6
PyIndex(t, h) ==
    IF h = 1 THEN 0 ELSE t \div (SectorsV \div (h - 1))

\* the source indices <<py, px>> sample_equirect computes for (x, y, z)
SampleIndex(vec, w, h) ==
    <<PyIndex(TexV(vec[2], Norm2(vec)), h), PxIndex(TexU(vec[1], vec[3]), w)>>

\* a[k] on an axis of length n: negative k counts from the end
Wrap(k, n) == IF k < 0 THEN k + n ELSE k
InRange(k, n) == 0 - n <= k /\ k < n

\* ------------------------------------------------------------------ images
Grid(rows, cols) == (0..(rows - 1)) \X (0..(cols - 1))

\* np.zeros((face_size, face_size, 3), dtype=np.uint8)
Zeros(n) == [n |-> n, px |-> [p \in Grid(n, n) |-> <<0, 0, 0>>]]

\* cv2.cvtColor(img, cv2.COLOR_BGR2RGB): channels 0 and 2 change places
CvtColorBGR2RGB(img) ==
    [img EXCEPT !.px = [p \in DOMAIN img.px |-> <<img.px[p][3], img.px[p][2], img.px[p][1]>>]]

\* ------------------------------------------------------------------ inputs
Widths == {w \in 1..MaxWidth : w = 1 \/ SectorsU % (w - 1) = 0}
Heights == {h \in 1..MaxHeight : h = 1 \/ SectorsV % (h - 1) = 0}
Panoramas == {"red", "coded", "wild"}
Statuses == {"ok", "missing", "corrupt", "nochannel"}

\* the float triple (in units of 1 / Unit) at row r, column c of a panorama
PanoPixel(pano, r, c) ==
    CASE pano = "red"   -> <<Unit, 0, 0>>
      [] pano = "coded" -> <<c + 1, r + 1, 0>>
      [] pano = "wild"  -> <<MaxChannel - c * Unit, 0 - (Unit \div 2) - r,
                             (2 * Unit) \div 3 + r>>

ExrFiles ==
    [status : Statuses, width : Widths, height : Heights, pano : Panoramas]

Sizes == {None} \cup {Some(n) : n \in (-1)..MaxSize}

VARIABLES
    exr,         \* the file at exr_path
    arg_size,    \* the size argument as passed
    dirExists,   \* output_dir exists
    dirCreated,  \* os.makedirs created output_dir in this run
    saved,       \* the files written, in order: [name, img]
    out,         \* the lines printed
    pc,          \* the statement the run is at
    error,       \* the exception that ended the run
    width, height, size, rgb, ldr, face_size,
    faces,       \* the dict, in insertion order: [name, img]
    face,        \* the buffer being filled
    fi, i, j,    \* the face loop being run and its counters
    dir,         \* the arguments of the last sample_equirect call
    read,        \* <<py, px>> of the last sample_equirect call
    si           \* position of the save loop in faces.items()

vars == <<exr, arg_size, dirExists, dirCreated, saved, out, pc, error, width, height,
          size, rgb, ldr, face_size, faces, face, fi, i, j, dir, read, si>>

env == <<exr, arg_size>>
loader == <<width, height, rgb>>
projector == <<faces, face, fi, i, j, dir, read>>
writer == <<dirExists, dirCreated, saved, si>>

Init ==
    /\ exr \in ExrFiles
    /\ arg_size \in Sizes
    /\ dirExists \in BOOLEAN
    /\ dirCreated = FALSE
    /\ saved = <<>>
    /\ out = <<>>
    /\ pc = "open"
    /\ error = None
    /\ width = None /\ height = None /\ rgb = None /\ ldr = None
    /\ size = arg_size
    /\ face_size = None
    /\ faces = <<>> /\ face = None
    /\ fi = 0 /\ i = 0 /\ j = 0 /\ si = 0
    /\ dir = None /\ read = None

Raise(e) == pc' = "failed" /\ error' = Some(e)

\* os.makedirs placed ahead of the load
OpenExrAfterMakeDirs ==
    /\ pc = "open"
    /\ dirExists' = TRUE
    /\ dirCreated' = ~dirExists
    /\ IF exr.status \in {"missing", "corrupt"}
       THEN Raise("OpenEXR") /\ UNCHANGED <<width, height>>
       ELSE /\ width' = Some(exr.width)
            /\ height' = Some(exr.height)
            /\ pc' = "autosize"
            /\ UNCHANGED error
    /\ UNCHANGED <<env, saved, si, out, size, rgb, ldr, face_size, projector>>

\* OpenEXR.InputFile(exr_path), the header and the data window
OpenExr ==
    /\ pc = "open"
    /\ IF exr.status \in {"missing", "corrupt"}
       THEN Raise("OpenEXR") /\ UNCHANGED <<width, height>>
       ELSE /\ width' = Some(exr.width)
            /\ height' = Some(exr.height)
            /\ pc' = "autosize"
            /\ UNCHANGED error
    /\ UNCHANGED <<env, writer, out, size, rgb, ldr, face_size, projector>>

\* if size is None: size = height // 2, and the line printed
AutoSize ==
    /\ pc = "autosize"
    /\ IF size = None
       THEN /\ size' = Some(Get(height) \div 2)
            /\ out' = Append(out, <<"auto", Get(height) \div 2>>)
       ELSE UNCHANGED <<size, out>>
    /\ pc' = "read"
    /\ UNCHANGED <<env, writer, error, loader, ldr, face_size, projector>>

\* the R, G and B channels, reshaped and stacked
ReadChannels ==
    /\ pc = "read"
    /\ IF exr.status = "nochannel"
       THEN Raise("channel") /\ UNCHANGED rgb
       ELSE /\ rgb' = Some([h |-> Get(height), w |-> Get(width),
                            px |-> [p \in Grid(Get(height), Get(width)) |->
                                      PanoPixel(exr.pano, p[1], p[2])]])
            /\ pc' = "tonemap"
            /\ UNCHANGED error
    /\ UNCHANGED <<env, writer, out, width, height, size, ldr, face_size, projector>>

\* clip(hdr * 1.5, 0, 1), power 1/2.2, * 255, astype(uint8)
Tonemap ==
    /\ pc = "tonemap"
    /\ ldr' = Some([Get(rgb) EXCEPT !.px =
                      [p \in DOMAIN Get(rgb).px |-> TonemapPixel(Get(rgb).px[p])]])
    /\ pc' = "begin"
    /\ UNCHANGED <<env, writer, out, error, loader, size, face_size, projector>>

\* the projection set up without its line printed
BeginProjectSilent ==
    /\ pc = "begin"
    /\ face_size' = size
    /\ faces' = <<>>
    /\ fi' = 1
    /\ pc' = "alloc"
    /\ UNCHANGED <<env, writer, out, error, loader, size, ldr, face, i, j, dir, read>>

\* h, w = ldr.shape[:2]; face_size = size; faces = {}; the line printed
BeginProject ==
    /\ pc = "begin"
    /\ face_size' = size
    /\ faces' = <<>>
    /\ out' = Append(out, <<"generating", Get(size)>>)
    /\ fi' = 1
    /\ pc' = "alloc"
    /\ UNCHANGED <<env, writer, error, loader, size, ldr, face, i, j, dir, read>>

\* face = np.zeros(...) and the entry of the two loops
AllocFace ==
    /\ pc = "alloc"
    /\ IF Get(face_size) < 0
       THEN Raise("ValueError") /\ UNCHANGED <<face, i, j>>
       ELSE /\ face' = Some(Zeros(Get(face_size)))
            /\ i' = 0 /\ j' = 0
            /\ pc' = IF Get(face_size) = 0 THEN "store" ELSE "pixel"
            /\ UNCHANGED error
    /\ UNCHANGED <<env, writer, out, loader, size, ldr, face_size, faces, fi, dir, read>>

\* face[i, j] = sample_equirect(...), and the step of the two loops
ProjectPixel ==
    /\ pc = "pixel"
    /\ LET fs == Get(face_size)
           vec == FaceDir(FaceNames[fi], i, j, fs)
           at == SampleIndex(vec, Get(ldr).w, Get(ldr).h)
       IN  /\ dir' = Some([face |-> FaceNames[fi], i |-> i, j |-> j, vec |-> vec])
           /\ read' = Some(at)
           /\ IF InRange(at[1], Get(ldr).h) /\ InRange(at[2], Get(ldr).w)
              THEN /\ face' = Some([Get(face) EXCEPT !.px[<<i, j>>] =
                                      Get(ldr).px[<<Wrap(at[1], Get(ldr).h),
                                                    Wrap(at[2], Get(ldr).w)>>]])
                   /\ j' = IF j + 1 < fs THEN j + 1 ELSE 0
                   /\ i' = IF j + 1 < fs THEN i ELSE i + 1
                   /\ pc' = IF j + 1 < fs \/ i + 1 < fs THEN "pixel" ELSE "store"
                   /\ UNCHANGED error
              ELSE Raise("IndexError") /\ UNCHANGED <<face, i, j>>
    /\ UNCHANGED <<env, writer, out, loader, size, ldr, face_size, faces, fi>>

\* faces[name] = face, and on to the next face or to the save
StoreFace ==
    /\ pc = "store"
    /\ faces' = Append(faces, [name |-> FaceNames[fi], img |-> Get(face)])
    /\ IF fi < Len(FaceNames)
       THEN fi' = fi + 1 /\ pc' = "alloc"
       ELSE fi' = fi /\ pc' = "makedirs"
    /\ UNCHANGED <<env, writer, out, error, loader, size, ldr, face_size, face, i, j,
                   dir, read>>

\* os.makedirs(output_dir, exist_ok=True)
MakeDirs ==
    /\ pc = "makedirs"
    /\ dirExists' = TRUE
    /\ dirCreated' = ~dirExists
    /\ si' = 1
    /\ pc' = "save"
    /\ UNCHANGED <<env, saved, out, error, loader, size, ldr, face_size, projector>>

\* os.makedirs raises: the directory cannot be created
MakeDirsFail ==
    /\ pc = "makedirs"
    /\ ~dirExists
    /\ Raise("makedirs")
    /\ UNCHANGED <<env, writer, out, loader, size, ldr, face_size, projector>>

\* a save loop that stops one face short
SaveFaceSkipsLast ==
    /\ pc = "save"
    /\ faces[si].img.n > 0
    /\ saved' = Append(saved, [name |-> faces[si].name,
                               img |-> CvtColorBGR2RGB(faces[si].img)])
    /\ out' = Append(out, <<"saved", faces[si].name>>)
    /\ IF si + 1 < Len(faces)
       THEN si' = si + 1 /\ pc' = "save"
       ELSE si' = si /\ pc' = "summary"
    /\ UNCHANGED <<env, dirExists, dirCreated, error, loader, size, ldr, face_size,
                   projector>>

\* one turn of the save loop: cvtColor, save, the line printed
SaveFace ==
    /\ pc = "save"
    /\ faces[si].img.n > 0
    /\ saved' = Append(saved, [name |-> faces[si].name,
                               img |-> CvtColorBGR2RGB(faces[si].img)])
    /\ out' = Append(out, <<"saved", faces[si].name>>)
    /\ IF si < Len(faces)
       THEN si' = si + 1 /\ pc' = "save"
       ELSE si' = si /\ pc' = "summary"
    /\ UNCHANGED <<env, dirExists, dirCreated, error, loader, size, ldr, face_size,
                   projector>>

\* a failing save that removes the files written so far
SaveFaceFailRollback ==
    /\ pc = "save"
    /\ Raise(IF faces[si].img.n = 0 THEN "cvtColor" ELSE "save")
    /\ saved' = <<>>
    /\ UNCHANGED <<env, dirExists, dirCreated, si, out, loader, size, ldr, face_size,
                   projector>>

\* one turn of the save loop raises: cvtColor on an empty image, or save cannot write
SaveFaceFail ==
    /\ pc = "save"
    /\ Raise(IF faces[si].img.n = 0 THEN "cvtColor" ELSE "save")
    /\ UNCHANGED <<env, writer, out, loader, size, ldr, face_size, projector>>

\* the summary line
Finish ==
    /\ pc = "summary"
    /\ out' = Append(out, <<"summary">>)
    /\ pc' = "done"
    /\ UNCHANGED <<env, writer, error, loader, size, ldr, face_size, projector>>

exr_to_cubemap ==
    \/ OpenExr \/ AutoSize \/ ReadChannels \/ Tonemap \/ BeginProject
    \/ AllocFace \/ ProjectPixel \/ StoreFace
    \/ MakeDirs \/ MakeDirsFail \/ SaveFace \/ SaveFaceFail \/ Finish

Next == exr_to_cubemap

Spec == Init /\ [][Next]_vars

TypeOK ==
    /\ pc \in {"open", "autosize", "read", "tonemap", "begin", "alloc", "pixel", "store",
               "makedirs", "save", "summary", "done", "failed"}
    /\ (error # None) <=> (pc = "failed")
    /\ Len(faces) <= Len(FaceNames)

\* ------------------------------------------------------------------ claims

\* C1: the face side length is size when size is given and positive, and
\* height // 2 in every other case (size absent, zero or negative).
C1_FaceSizePolicy ==
    face_size # None =>
        Get(face_size) = IF arg_size # None /\ Get(arg_size) > 0
                         THEN Get(arg_size)
                         ELSE Get(height) \div 2

\* C2: a run that completes has written exactly the six files right, left, top,
\* bottom, front, back, each once; no other name is ever written.
C2_SixFiles ==
    /\ \A k \in DOMAIN saved :
          /\ saved[k].name \in {"right", "left", "top", "bottom", "front", "back"}
          /\ \A m \in DOMAIN saved : saved[m].name = saved[k].name => m = k
    /\ pc \in {"summary", "done"} =>
          {saved[k].name : k \in DOMAIN saved} =
              {"right", "left", "top", "bottom", "front", "back"}

C2_Witness ==
    /\ pc = "done"
    /\ Len(saved) = 6
    /\ face_size = Some(3)

\* C3: with a non-positive face size the run fails before any face buffer is
\* allocated: no state has a non-positive face size and an allocated buffer.
C3_FatalBeforeAlloc ==
    (face_size # None /\ Get(face_size) <= 0) => (face = None /\ faces = <<>>)

\* C4: for the 4x2 panorama whose every pixel is (1.0, 0.0, 0.0), every pixel
\* of every face handed to the image writer is (255, 0, 0).
C4_RedPanorama ==
    (exr.pano = "red" /\ exr.width = 4 /\ exr.height = 2) =>
        \A k \in DOMAIN saved : \A p \in DOMAIN saved[k].img.px :
            saved[k].img.px[p] = <<255, 0, 0>>

\* C5: the source indices sample_equirect computes satisfy 0 <= px <= w - 1
\* and 0 <= py <= h - 1, for every face and face pixel.
C5_SourceIndexInRange ==
    read # None =>
        /\ 0 <= Get(read)[1] /\ Get(read)[1] <= Get(ldr).h - 1
        /\ 0 <= Get(read)[2] /\ Get(read)[2] <= Get(ldr).w - 1

\* a read of the last column (u = 1.0: x = +0.0, z < 0) of a panorama 5 wide
C5_Witness ==
    /\ read # None
    /\ Get(ldr).w = 5
    /\ Get(read)[2] = 4
    /\ Get(dir).face = "bottom"
    /\ Get(dir).vec[1].m = 0

\* C6: when the input fails to load the run ends with the error, the output
\* directory has not been created and no face file has been written.
C6_NoOutputOnLoadFailure ==
    /\ exr.status # "ok" =>
          /\ pc \in {"open", "autosize", "read", "failed"}
          /\ ~dirCreated
          /\ saved = <<>>
    /\ (exr.status \in {"missing", "corrupt"} /\ pc # "open") =>
          (pc = "failed" /\ error = Some("OpenEXR"))
    /\ (exr.status = "nochannel" /\ pc \notin {"open", "autosize", "read"}) =>
          (pc = "failed" /\ error = Some("channel"))

C6_Witness ==
    /\ exr.status = "nochannel"
    /\ pc = "failed"
    /\ ~dirExists

\* C7: when saving fails the run ends at that failure: the faces saved before
\* it are on disk as written, no later face is written, no summary is printed.
C7_SaveFailureAborts ==
    (pc = "failed" /\ error \in {Some("makedirs"), Some("save"), Some("cvtColor")}) =>
        /\ \A k \in DOMAIN out : out[k][1] # "summary"
        /\ error = Some("makedirs") => saved = <<>>
        /\ error # Some("makedirs") =>
              /\ Len(saved) = si - 1
              /\ \A k \in DOMAIN saved :
                    saved[k] = [name |-> faces[k].name,
                                img |-> CvtColorBGR2RGB(faces[k].img)]

C7_Witness ==
    /\ pc = "failed"
    /\ error = Some("save")
    /\ Len(saved) = 3

\* C8: every tonemapped channel is in 0..255; an input <= 0 gives 0 and an
\* input >= 2/3 gives 255.
C8_TonemapRange ==
    ldr # None =>
        \A p \in DOMAIN Get(ldr).px : \A ch \in 1..3 :
            LET n == Get(rgb).px[p][ch]
                o == Get(ldr).px[p][ch]
            IN  /\ o \in 0..255
                /\ n <= 0 => o = 0
                /\ 3 * n >= 2 * Unit => o = 255

\* inputs below 0, above 1 and strictly inside (0, 2/3) in one panorama
C8_Witness ==
    /\ ldr # None
    /\ \E p \in DOMAIN Get(ldr).px : Get(rgb).px[p][1] > Unit /\ Get(ldr).px[p][1] = 255
    /\ \E p \in DOMAIN Get(ldr).px : Get(rgb).px[p][1] < 0 /\ Get(ldr).px[p][1] = 0
    /\ \E p \in DOMAIN Get(ldr).px :
          /\ Get(rgb).px[p][3] > 0 /\ 3 * Get(rgb).px[p][3] < 2 * Unit
          /\ Get(ldr).px[p][3] \in 1..254

\* the axis (1 = x, 2 = y, 3 = z) and the sign of each face
C9_Axis(name) ==
    CASE name \in {"right", "left"} -> 1
      [] name \in {"top", "bottom"} -> 2
      [] name \in {"front", "back"} -> 3
C9_Sign(name) == IF name \in {"right", "top", "front"} THEN 1 ELSE -1

\* C9: the center pixel (u = v = 0) of a face maps to the face's axis
\* direction, and for every pixel the face's axis component is the largest in
\* absolute value and has the face's sign.
C9_FaceAxis ==
    dir # None =>
        LET d == Get(dir)
            a == C9_Axis(d.face)
            fs == Get(face_size)
        IN  /\ d.vec[a].s = C9_Sign(d.face)
            /\ \A b \in 1..3 : b # a => d.vec[b].m < d.vec[a].m
            /\ (2 * d.i + 1 = fs /\ 2 * d.j + 1 = fs) =>
                  /\ \A b \in 1..3 : b # a => d.vec[b].m = 0
                  /\ d.vec[a].m * d.vec[a].m = Norm2(d.vec)

C9_Witness ==
    /\ dir # None
    /\ face_size = Some(3)
    /\ Get(dir).face = "back"
    /\ Get(dir).i = 1 /\ Get(dir).j = 1

\* the face size has been resolved
C10_Resolved == (arg_size = None /\ size # None) \/ face_size # None
C10_Emitted == \E k \in DOMAIN out : out[k][1] \in {"auto", "generating"}
C10_AllFilled ==
    /\ Len(faces) = 6
    /\ \A k \in DOMAIN faces : \A p \in Grid(Get(face_size), Get(face_size)) :
          faces[k].img.px[p] =
              Get(ldr).px[SampleIndex(FaceDir(faces[k].name, p[1], p[2], Get(face_size)),
                                      Get(ldr).w, Get(ldr).h)]

\* C10 as stated: the face size is resolved only after the panorama is loaded
\* and tonemapped, it is emitted before the first pixel is projected, and no
\* face is written until all six buffers are filled.
C10_StrictStageOrder ==
    /\ C10_Resolved => (rgb # None /\ ldr # None)
    /\ dir # None => C10_Emitted
    /\ saved # <<>> => C10_AllFilled

\* C10 amended: a defaulted face size is resolved after the header is read and
\* before the channels are read and tonemapped; face_size is bound and the
\* projection starts only after tonemapping; the face size is emitted before the
\* first pixel is projected; no face is written until all six are filled.
C10_StageOrder ==
    /\ C10_Resolved => height # None
    /\ rgb # None => size # None
    /\ ldr # None => rgb # None
    /\ face_size # None => ldr # None
    /\ (face # None \/ dir # None) =>
          \E k \in DOMAIN out : out[k][1] = "generating" /\ out[k][2] = Get(face_size)
    /\ saved # <<>> => C10_AllFilled

\* the defaulted size is known while nothing is loaded or tonemapped yet
C10_Witness ==
    /\ pc = "read"
    /\ arg_size = None
    /\ size = Some(2)
    /\ rgb = None /\ ldr = None
    /\ out = <<<<"auto", 2>>>>
=============================================================================
